---------------------------- MODULE Spec2Model ----------------------------
(***************************************************************************)
(* ConceptCycle front end (src/main.py): the Gradio handlers, the session  *)
(* record cfg_state, the selector widgets and the label codec, together    *)
(* with the REST backend the handlers call.                                *)
(*                                                                         *)
(* Text is a sequence of one-character strings.  The em dash of the label  *)
(* separator (U+2014) is written "-".  Python's None is the one-element    *)
(* sequence None, which is no text (its element is not a character).       *)
(***************************************************************************)
EXTENDS Integers, Sequences, FiniteSets, TLC

\* ------------------------------------------------------------------ bounds
\* Notes the backend ever creates (uploads accepted).
MaxNotes == 2
\* Quizzes the backend ever creates.
MaxQuizzes == 2
\* Questions of one generated quiz.
MaxQuestions == 1
\* Handler runs of one session, over all tabs.
MaxSteps == 5
\* Handler runs of one session that stays on the Quizzes tab.
MaxQuizSteps == 6

\* ----------------------------------------------------------------- strings
None == <<"<None>">>

SEP == <<" ", "-", " ">>

Digit(i) == <<"0", "1", "2", "3", "4", "5", "6", "7", "8", "9">>[i + 1]

\* Python truthiness of an Optional[str]: None and "" are falsy.
Truthy(s) == s # None /\ s # <<>>

\* str(x) of a table cell: str(None) is the text "None".
PyStr(x) == IF x = None THEN <<"N", "o", "n", "e">> ELSE x

IsSpace(c) == c = " "

\* s.strip()
RECURSIVE LStrip(_)
LStrip(s) == IF s # <<>> /\ IsSpace(Head(s)) THEN LStrip(Tail(s)) ELSE s

RECURSIVE RStrip(_)
RStrip(s) ==
    IF s # <<>> /\ IsSpace(s[Len(s)]) THEN RStrip(SubSeq(s, 1, Len(s) - 1)) ELSE s

Strip(s) == RStrip(LStrip(s))

\* s[:n]
Prefix(s, n) == SubSeq(s, 1, IF Len(s) < n THEN Len(s) ELSE n)

\* Whether sep occurs in s at position i.
MatchAt(s, sep, i) ==
    /\ i >= 1
    /\ i + Len(sep) - 1 <= Len(s)
    /\ SubSeq(s, i, i + Len(sep) - 1) = sep

\* s.find(sep, from): the first position >= from where sep occurs, 0 if none.
FindFrom(s, sep, from) ==
    LET hits == {i \in from..Len(s) : MatchAt(s, sep, i)}
    IN  IF hits = {} THEN 0 ELSE CHOOSE i \in hits : \A j \in hits : i <= j

\* sep in s
Contains(s, sep) == FindFrom(s, sep, 1) # 0

\* s.split(sep)[-1]: str.split cuts at the non-overlapping occurrences of sep
\* found scanning from the left; the last piece starts after the last cut.
RECURSIVE SplitLastFrom(_, _, _)
SplitLastFrom(s, sep, from) ==
    LET i == FindFrom(s, sep, from)
    IN  IF i = 0 THEN SubSeq(s, from, Len(s))
        ELSE SplitLastFrom(s, sep, i + Len(sep))

SplitLast(s, sep) == SplitLastFrom(s, sep, 1)

\* ------------------------------------------------------------------- codec
IdPrefixLen == 8

\* _format_note_choice(row): f"{name} - {nid}"
format_note_choice(row) == row.name \o SEP \o row.id

\* _format_note_choices(rows)
format_note_choices(rows) == [i \in 1..Len(rows) |-> format_note_choice(rows[i])]

\* _format_quiz_choice(q): q.get("name") or f"Quiz {qid[:8]}", then " - " and the id
format_quiz_choice(q) ==
    LET qname == IF Truthy(q.name) THEN q.name
                 ELSE <<"Q", "u", "i", "z", " ">> \o Prefix(q.id, IdPrefixLen)
    IN  qname \o SEP \o q.id

\* _extract_id_from_display(sel)
extract_id_from_display(sel) ==
    IF ~Truthy(sel) THEN None
    ELSE IF Contains(sel, SEP) THEN SplitLast(sel, SEP)
    ELSE sel

\* _extract_ids_from_display_list(sel_list); a list that is None or [] is <<>> here
extract_ids_from_display_list(sel_list) ==
    IF sel_list = <<>> THEN <<>>
    ELSE [i \in 1..Len(sel_list) |->
             IF Contains(sel_list[i], SEP) THEN SplitLast(sel_list[i], SEP)
             ELSE sel_list[i]]

\* ------------------------------------------------------------------- state
VARIABLES
    notes,                    \* backend: the notes, in GET /notes order
    quizzes,                  \* backend: the quizzes, in GET /quizzes order
    nextNote,                 \* backend: number of the next note id
    nextQuiz,                 \* backend: number of the next quiz id
    cfg_state,                \* gr.State: [last_note_id, last_quiz_id]
    notes_df,                 \* Notes tab: rows of the notes table
    selected_note,            \* Notes tab: dropdown [choices, value]
    concept_note_selector,    \* Concepts tab: dropdown [choices, value]
    concepts_df,              \* Concepts tab: rows of the concepts table
    quiz_note_selector,       \* Quizzes tab: multi-select dropdown [choices, value]
    active_quiz_selector,     \* Quizzes tab: dropdown [choices, value]
    active_quiz_df,           \* Quizzes tab: answer table [value, interactive]
    completed_quiz_selector,  \* Quizzes tab: dropdown [choices, value]
    completed_quiz_df,        \* Quizzes tab: rows of the completed-quiz table
    last,                     \* the last handler run: its name h, its input inp,
                              \* whether it raised, its display text out and
                              \* the API calls it made
    budget                    \* handler runs left in the session

backend == <<notes, quizzes, nextNote, nextQuiz>>
notesTab == <<notes_df, selected_note>>
conceptsTab == <<concept_note_selector, concepts_df>>
quizzesTab == <<quiz_note_selector, active_quiz_selector, active_quiz_df,
                completed_quiz_selector, completed_quiz_df>>
vars == <<notes, quizzes, nextNote, nextQuiz, cfg_state, notes_df, selected_note,
          concept_note_selector, concepts_df, quiz_note_selector,
          active_quiz_selector, active_quiz_df, completed_quiz_selector,
          completed_quiz_df, last, budget>>

\* Names a user gives a note (upload_text's name, a file's base name); the
\* second one ends in a space and a dash.
Names == {<<"a">>, <<"a", " ", "-">>}

\* Names the backend gives a quiz; None is a quiz without a name.
QuizNames == {None, <<"k">>, <<"k", " ", "-">>}

\* What the user can leave in an answer cell; None is an absent cell.
AnswerCells == {<<>>, <<" ">>, <<" ", "y", " ">>, None}

\* The status of a note, a cell of the notes table.
Uploaded == <<"uploaded">>
Processed == <<"processed">>

\* Identifiers are opaque and the backend's own: n1, n2, ... and z1, z2, ...
NoteId(i) == <<"n", Digit(i)>>
QuizId(i) == <<"z", Digit(i)>>

\* The text of question j of quiz number i.
Question(i, j) == <<"q", Digit(i), Digit(j)>>

Range(s) == {s[i] : i \in 1..Len(s)}

\* What a dropdown lets the user pick: nothing, or one of its choices.
Options(dd) == {None} \cup Range(dd.choices)

\* The selections of a multi-select dropdown: the sub-lists of its choices.
RECURSIVE SubLists(_)
SubLists(s) ==
    IF s = <<>> THEN {<<>>}
    ELSE LET rest == SubLists(Tail(s))
         IN  rest \cup {<<Head(s)>> \o r : r \in rest}

\* ----------------------------------------------------------------- backend
HasNote(nid) == \E i \in 1..Len(notes) : notes[i].id = nid
HasQuiz(qid) == \E i \in 1..Len(quizzes) : quizzes[i].id = qid
QuizOf(qid) == quizzes[CHOOSE i \in 1..Len(quizzes) : quizzes[i].id = qid]

Call(op, id, body) == [op |-> op, id |-> id, body |-> body]

\* ------------------------------------------------------------------ gradio
\* gr.update(**kw) applied to a component: the given properties are replaced.
ApplyUpdate(comp, upd) ==
    [k \in DOMAIN comp |-> IF k \in DOMAIN upd THEN upd[k] ELSE comp[k]]

\* A handler that returned: its outputs were written.
Returned(h, inp, out, calls) ==
    /\ budget > 0
    /\ budget' = budget - 1
    /\ last' = [h |-> h, inp |-> inp, raised |-> FALSE, out |-> out, calls |-> calls]

\* A handler that raised, or returned fewer values than it has outputs: the
\* event fails and none of its outputs is written.
Raised(h, inp, calls) ==
    /\ budget > 0
    /\ budget' = budget - 1
    /\ last' = [h |-> h, inp |-> inp, raised |-> TRUE, out |-> "", calls |-> calls]

\* A session starts with the widgets as constructed and cfg_state empty.
Widgets ==
       cfg_state = [last_note_id |-> None, last_quiz_id |-> None]
    /\ notes_df = <<>>
    /\ selected_note = [choices |-> <<>>, value |-> None]
    /\ concept_note_selector = [choices |-> <<>>, value |-> None]
    /\ concepts_df = <<>>
    /\ quiz_note_selector = [choices |-> <<>>, value |-> <<>>]
    /\ active_quiz_selector = [choices |-> <<>>, value |-> None]
    /\ active_quiz_df = [value |-> <<>>, interactive |-> TRUE]
    /\ completed_quiz_selector = [choices |-> <<>>, value |-> None]
    /\ completed_quiz_df = <<>>
    /\ last = [h |-> "init", inp |-> <<>>, raised |-> FALSE, out |-> "", calls |-> <<>>]

Init ==
    /\ notes = <<>>
    /\ quizzes = <<>>
    /\ nextNote = 1
    /\ nextQuiz = 1
    /\ Widgets
    /\ budget = MaxSteps

\* --------------------------------------------------------------- Notes tab
\* upload_text / upload_file reject a missing input locally.
upload_rejected(name, content) == ~Truthy(name) \/ ~Truthy(content)

\* _upload_txt: POST /notes/text creates a note named name.
UploadText(name, content) ==
    /\ IF upload_rejected(name, content)
       THEN /\ Returned("upload_txt", name, "Both name and content are required.", <<>>)
            /\ UNCHANGED backend
       ELSE \E ok \in BOOLEAN :
            /\ ok => nextNote <= MaxNotes
            /\ IF ok
               THEN /\ notes' = Append(notes, [id |-> NoteId(nextNote),
                                               name |-> name, status |-> Uploaded])
                    /\ nextNote' = nextNote + 1
                    /\ Returned("upload_txt", name, "note_id",
                                <<Call("POST /notes/text", <<>>, <<name>>)>>)
               ELSE /\ UNCHANGED <<notes, nextNote>>
                    /\ Returned("upload_txt", name, "error",
                                <<Call("POST /notes/text", <<>>, <<name>>)>>)
            /\ UNCHANGED <<quizzes, nextQuiz>>
    /\ UNCHANGED <<cfg_state, notesTab, conceptsTab, quizzesTab>>

\* _upload_file: fpath is the chosen file's base name, None when no file is chosen.
UploadFile(fpath) ==
    /\ IF ~Truthy(fpath)
       THEN /\ Returned("upload_file", fpath, "No file selected.", <<>>)
            /\ UNCHANGED backend
       ELSE \E ok \in BOOLEAN :
            /\ ok => nextNote <= MaxNotes
            /\ IF ok
               THEN /\ notes' = Append(notes, [id |-> NoteId(nextNote),
                                               name |-> fpath, status |-> Uploaded])
                    /\ nextNote' = nextNote + 1
                    /\ Returned("upload_file", fpath, "note_id",
                                <<Call("POST /notes", <<>>, <<fpath>>)>>)
               ELSE /\ UNCHANGED <<notes, nextNote>>
                    /\ Returned("upload_file", fpath, "error",
                                <<Call("POST /notes", <<>>, <<fpath>>)>>)
            /\ UNCHANGED <<quizzes, nextQuiz>>
    /\ UNCHANGED <<cfg_state, notesTab, conceptsTab, quizzesTab>>

\* rows = [[n[1], n[2]] for n in notes]
note_rows(ns) == [i \in 1..Len(ns) |-> <<ns[i].name, ns[i].status>>]

\* selected_val = choices[0] if choices else None
first_or_none(choices) == IF choices # <<>> THEN choices[1] ELSE None

\* _refresh_notes, given the list GET /notes answered.
refresh_notes(ns) ==
    LET choices == format_note_choices(ns)
    IN  <<note_rows(ns), [choices |-> choices, value |-> first_or_none(choices)]>>

RefreshNotes ==
    /\ \E up \in BOOLEAN :
       IF up
       THEN LET ret == refresh_notes(notes)
            IN  /\ notes_df' = ret[1]
                /\ selected_note' = ApplyUpdate(selected_note, ret[2])
                /\ Returned("refresh_notes", <<>>, "", <<Call("GET /notes", <<>>, <<>>)>>)
       ELSE /\ UNCHANGED notesTab
            /\ Raised("refresh_notes", <<>>, <<Call("GET /notes", <<>>, <<>>)>>)
    /\ UNCHANGED <<backend, cfg_state, conceptsTab, quizzesTab>>

\* _show_content: the one read handler of the Notes tab that guards its call.
ShowContent(sel) ==
    /\ LET nid == extract_id_from_display(sel)
       IN  IF ~Truthy(nid)
           THEN Returned("show_content", sel, "No note selected.", <<>>)
           ELSE \E ok \in BOOLEAN :
                /\ ok => HasNote(nid)
                /\ Returned("show_content", sel, IF ok THEN "content" ELSE "error",
                            <<Call("GET /notes/{id}", nid, <<>>)>>)
    /\ UNCHANGED <<backend, cfg_state, notesTab, conceptsTab, quizzesTab>>

process_new_cfg_always(cfg, nid, ok) == [cfg EXCEPT !.last_note_id = nid]

\* new_cfg = cfg.copy(); new_cfg["last_note_id"] = nid if ok else cfg.get("last_note_id")
process_new_cfg(cfg, nid, ok) ==
    [cfg EXCEPT !.last_note_id = IF ok THEN nid ELSE cfg.last_note_id]

\* The backend marks a processed note.
MarkProcessed(nid) ==
    [i \in 1..Len(notes) |->
        IF notes[i].id = nid THEN [notes[i] EXCEPT !.status = Processed] ELSE notes[i]]

\* _process
Process(sel) ==
    /\ LET nid == extract_id_from_display(sel)
       IN  IF ~Truthy(nid)
           THEN /\ cfg_state' = cfg_state
                /\ notes' = notes
                /\ Returned("process", sel, "No note selected.", <<>>)
           ELSE \E ok \in BOOLEAN :
                /\ ok => HasNote(nid)
                /\ notes' = IF ok THEN MarkProcessed(nid) ELSE notes
                /\ cfg_state' = process_new_cfg(cfg_state, nid, ok)
                /\ Returned("process", sel, IF ok THEN "Generated concepts." ELSE "error",
                            <<Call("POST /notes/{id}/process", nid, <<>>)>>)
    /\ UNCHANGED <<quizzes, nextNote, nextQuiz, notesTab, conceptsTab, quizzesTab>>

\* rows = [[n[0], n[1], n[2]] for n in notes]
delete_rows(ns) == [i \in 1..Len(ns) |-> <<ns[i].id, ns[i].name, ns[i].status>>]

\* _delete_note after DELETE answered 2xx, given the list GET /notes answered.
delete_note_relist(ns) ==
    <<"Note deleted.", delete_rows(ns),
      [choices |-> format_note_choices(ns), value |-> None]>>

\* _delete_note when nothing is selected or DELETE failed.
delete_note_failed(msg) == <<msg, <<>>, [choices |-> <<>>, value |-> None]>>

RemoveNote(nid) == SelectSeq(notes, LAMBDA n : n.id # nid)

DeleteNote(sel) ==
    LET nid == extract_id_from_display(sel)
        del == Call("DELETE /notes/{id}", nid, <<>>)
        lst == Call("GET /notes", <<>>, <<>>)
    IN
    /\ IF ~Truthy(nid)
       THEN LET ret == delete_note_failed("No note selected.")
            IN  /\ notes_df' = ret[2]
                /\ selected_note' = ApplyUpdate(selected_note, ret[3])
                /\ notes' = notes
                /\ Returned("delete_note", sel, ret[1], <<>>)
       ELSE \E ok \in BOOLEAN, up \in BOOLEAN :
            /\ ok => HasNote(nid)
            /\ ~ok => ~up
            /\ notes' = IF ok THEN RemoveNote(nid) ELSE notes
            /\ IF ~ok
               THEN LET ret == delete_note_failed("error")
                    IN  /\ notes_df' = ret[2]
                        /\ selected_note' = ApplyUpdate(selected_note, ret[3])
                        /\ Returned("delete_note", sel, ret[1], <<del>>)
               ELSE IF up
               THEN LET ret == delete_note_relist(notes')
                    IN  /\ notes_df' = ret[2]
                        /\ selected_note' = ApplyUpdate(selected_note, ret[3])
                        /\ Returned("delete_note", sel, ret[1], <<del, lst>>)
               ELSE /\ UNCHANGED notesTab
                    /\ Raised("delete_note", sel, <<del, lst>>)
    /\ UNCHANGED <<quizzes, nextNote, nextQuiz, cfg_state, conceptsTab, quizzesTab>>

\* ------------------------------------------------------------ Concepts tab
\* _refresh_concept, given the list GET /notes answered.
refresh_concept(ns) ==
    LET choices == format_note_choices(ns)
    IN  [choices |-> choices, value |-> first_or_none(choices)]

RefreshConcept ==
    /\ \E up \in BOOLEAN :
       IF up
       THEN /\ concept_note_selector' =
                   ApplyUpdate(concept_note_selector, refresh_concept(notes))
            /\ Returned("refresh_concept", <<>>, "", <<Call("GET /notes", <<>>, <<>>)>>)
       ELSE /\ UNCHANGED concept_note_selector
            /\ Raised("refresh_concept", <<>>, <<Call("GET /notes", <<>>, <<>>)>>)
    /\ UNCHANGED <<backend, cfg_state, notesTab, concepts_df, quizzesTab>>

\* GET /notes/{id}/concepts: a processed note has a concept, another has none.
ConceptsOf(nid) ==
    LET n == notes[CHOOSE i \in 1..Len(notes) : notes[i].id = nid]
    IN  IF n.status = Processed THEN <<[name |-> <<"c">> \o nid]>> ELSE <<>>

\* _load_concepts builds one row per concept; the row is kept by its name cell.
concept_rows(raw) == [i \in 1..Len(raw) |-> <<raw[i].name>>]

\* _load_concepts, run when the selector's value changes.
LoadConcepts(sel) ==
    /\ LET nid == extract_id_from_display(sel)
       IN  IF ~Truthy(nid)
           THEN /\ concepts_df' = <<>>
                /\ Returned("load_concepts", sel, "", <<>>)
           ELSE \E ok \in BOOLEAN :
                /\ ok => HasNote(nid)
                /\ IF ok
                   THEN /\ concepts_df' = concept_rows(ConceptsOf(nid))
                        /\ Returned("load_concepts", sel, "",
                                    <<Call("GET /notes/{id}/concepts", nid, <<>>)>>)
                   ELSE /\ UNCHANGED concepts_df
                        /\ Raised("load_concepts", sel,
                                  <<Call("GET /notes/{id}/concepts", nid, <<>>)>>)
    /\ UNCHANGED <<backend, cfg_state, notesTab, concept_note_selector, quizzesTab>>

\* ------------------------------------------------------------- Quizzes tab
\* _refresh_quiz_notes, given the list GET /notes answered.
\* (the multi-select's value None, no selection, is the empty list)
refresh_quiz_notes(ns) == [choices |-> format_note_choices(ns), value |-> <<>>]

RefreshQuizNotes ==
    /\ \E up \in BOOLEAN :
       IF up
       THEN /\ quiz_note_selector' =
                   ApplyUpdate(quiz_note_selector, refresh_quiz_notes(notes))
            /\ Returned("refresh_quiz_notes", <<>>, "", <<Call("GET /notes", <<>>, <<>>)>>)
       ELSE /\ UNCHANGED quiz_note_selector
            /\ Raised("refresh_quiz_notes", <<>>, <<Call("GET /notes", <<>>, <<>>)>>)
    /\ UNCHANGED <<backend, cfg_state, notesTab, conceptsTab, active_quiz_selector,
                   active_quiz_df, completed_quiz_selector, completed_quiz_df>>

with_status_any(qs, status) == qs

\* [q for q in list_quizzes(...) if q.get("status") == status]
with_status(qs, status) == SelectSeq(qs, LAMBDA q : q.status = status)

\* _refresh_active_quizzes / _refresh_completed_quizzes, given the list
\* GET /quizzes answered and the status the selector keeps.
refresh_quizzes(qs, status) ==
    LET kept == with_status(qs, status)
        choices == [i \in 1..Len(kept) |-> format_quiz_choice(kept[i])]
    IN  [choices |-> choices, value |-> first_or_none(choices)]

RefreshActiveQuizzes ==
    /\ \E up \in BOOLEAN :
       IF up
       THEN /\ active_quiz_selector' =
                   ApplyUpdate(active_quiz_selector, refresh_quizzes(quizzes, "active"))
            /\ Returned("refresh_active_quizzes", <<>>, "", <<Call("GET /quizzes", <<>>, <<>>)>>)
       ELSE /\ UNCHANGED active_quiz_selector
            /\ Raised("refresh_active_quizzes", <<>>, <<Call("GET /quizzes", <<>>, <<>>)>>)
    /\ UNCHANGED <<backend, cfg_state, notesTab, conceptsTab, quiz_note_selector,
                   active_quiz_df, completed_quiz_selector, completed_quiz_df>>

RefreshCompletedQuizzes ==
    /\ \E up \in BOOLEAN :
       IF up
       THEN /\ completed_quiz_selector' =
                   ApplyUpdate(completed_quiz_selector,
                               refresh_quizzes(quizzes, "completed"))
            /\ Returned("refresh_completed_quizzes", <<>>, "",
                        <<Call("GET /quizzes", <<>>, <<>>)>>)
       ELSE /\ UNCHANGED completed_quiz_selector
            /\ Raised("refresh_completed_quizzes", <<>>, <<Call("GET /quizzes", <<>>, <<>>)>>)
    /\ UNCHANGED <<backend, cfg_state, notesTab, conceptsTab, quiz_note_selector,
                   active_quiz_selector, active_quiz_df, completed_quiz_df>>

\* rows = [[q["question"], ""] for q in out.get("questions", [])]
blank_rows(questions) == [i \in 1..Len(questions) |-> <<questions[i], <<>>>>]

\* The outputs create_quiz_btn.click binds: the hidden JSON, active_quiz_df, cfg_state.
CreateQuizOutputs == 3

\* _create_quiz's return value when it makes no quiz: two values.
create_quiz_error(msg) == <<msg, [value |-> <<>>]>>

\* _create_quiz's return value for the quiz out that POST /quizzes answered.
create_quiz_made(cfg, out) ==
    <<"quiz", [value |-> blank_rows(out.questions)],
      [cfg EXCEPT !.last_quiz_id = out.id]>>

\* The quiz the backend makes: its next id, a name or none, up to MaxQuestions questions.
NewQuiz(name, n) ==
    [id |-> QuizId(nextQuiz), name |-> name, status |-> "active",
     questions |-> [j \in 1..n |-> Question(nextQuiz, j)]]

\* What the event does with the values a handler returned for `needed` outputs.
EnoughOutputs(ret, needed) == Len(ret) >= needed

\* What the event does with the values ret of a _create_quiz run that made
\* the API calls `calls`.
CreateQuizEvent(sels, ret, calls) ==
    IF EnoughOutputs(ret, CreateQuizOutputs)
    THEN /\ active_quiz_df' = ApplyUpdate(active_quiz_df, ret[2])
         /\ cfg_state' = ret[3]
         /\ Returned("create_quiz", sels, ret[1], calls)
    ELSE /\ UNCHANGED <<active_quiz_df, cfg_state>>
         /\ Raised("create_quiz", sels, calls)

\* _create_quiz
CreateQuiz(sels) ==
    LET note_ids == extract_ids_from_display_list(sels)
        post == Call("POST /quizzes", <<>>, note_ids)
    IN
    /\ IF note_ids = <<>>
       THEN /\ UNCHANGED <<quizzes, nextQuiz>>
            /\ CreateQuizEvent(sels, create_quiz_error("Select at least one note."), <<>>)
       ELSE \/ /\ UNCHANGED <<quizzes, nextQuiz>>
               /\ CreateQuizEvent(sels, create_quiz_error("error"), <<post>>)
            \/ /\ \A i \in 1..Len(note_ids) : HasNote(note_ids[i])
               /\ nextQuiz <= MaxQuizzes
               /\ \E name \in QuizNames, n \in 0..MaxQuestions :
                     /\ quizzes' = Append(quizzes, NewQuiz(name, n))
                     /\ nextQuiz' = nextQuiz + 1
                     /\ CreateQuizEvent(sels, create_quiz_made(cfg_state, NewQuiz(name, n)),
                                        <<post>>)
    /\ UNCHANGED <<notes, nextNote, notesTab, conceptsTab, quiz_note_selector,
                   active_quiz_selector, completed_quiz_selector, completed_quiz_df>>

readonly_inverted(data) == data.status = "active"

\* readonly = data.get("status") != "active"
readonly(data) == data.status # "active"

load_active_quiz_keeps_cfg(cfg, qid, data) ==
    <<[value |-> blank_rows(data.questions), interactive |-> ~readonly(data)], cfg>>

\* _load_active_quiz's return value for the quiz data that GET /quizzes/{qid} answered.
load_active_quiz(cfg, qid, data) ==
    <<[value |-> blank_rows(data.questions), interactive |-> ~readonly(data)],
      [cfg EXCEPT !.last_quiz_id = qid]>>

\* _load_active_quiz, run when the selector's value changes.
LoadActiveQuiz(sel) ==
    /\ IF ~Truthy(sel)
       THEN /\ active_quiz_df' = ApplyUpdate(active_quiz_df, [value |-> <<>>])
            /\ cfg_state' = cfg_state
            /\ Returned("load_active_quiz", sel, "", <<>>)
       ELSE LET qid == extract_id_from_display(sel)
                get == Call("GET /quizzes/{id}", qid, <<>>)
            IN  \E ok \in BOOLEAN :
                /\ ok => HasQuiz(qid)
                /\ IF ok
                   THEN LET ret == load_active_quiz(cfg_state, qid, QuizOf(qid))
                        IN  /\ active_quiz_df' = ApplyUpdate(active_quiz_df, ret[1])
                            /\ cfg_state' = ret[2]
                            /\ Returned("load_active_quiz", sel, "", <<get>>)
                   ELSE /\ UNCHANGED <<active_quiz_df, cfg_state>>
                        /\ Raised("load_active_quiz", sel, <<get>>)
    /\ UNCHANGED <<backend, notesTab, conceptsTab, quiz_note_selector,
                   active_quiz_selector, completed_quiz_selector, completed_quiz_df>>

\* answers = [str(r).strip() for r in df.answer]
answers_of(rows) == [i \in 1..Len(rows) |-> Strip(PyStr(rows[i][2]))]

\* not answers or not all(map(bool, answers))
not_all_attempted(answers) ==
    answers = <<>> \/ \E i \in 1..Len(answers) : answers[i] = <<>>

no_quiz_loaded_other_key(cfg) == ~Truthy(cfg.last_note_id)

\* not quiz_id
no_quiz_loaded(cfg) == ~Truthy(cfg.last_quiz_id)

\* The backend grades an active quiz that gets one response per question.
Gradable(qid, responses) ==
    /\ HasQuiz(qid)
    /\ QuizOf(qid).status = "active"
    /\ Len(responses) = Len(QuizOf(qid).questions)

MarkCompleted(qid) ==
    [i \in 1..Len(quizzes) |->
        IF quizzes[i].id = qid THEN [quizzes[i] EXCEPT !.status = "completed"]
        ELSE quizzes[i]]

\* The table as the user left it: the answer cells typed into an editable table.
Typed(df, cells) ==
    IF df.interactive
    THEN [df EXCEPT !.value = [i \in 1..Len(df.value) |-> <<df.value[i][1], cells[i]>>]]
    ELSE df

\* _submit_quiz on the table the user left
SubmitQuiz(cells) ==
    LET df == Typed(active_quiz_df, cells)
        quiz_id == cfg_state.last_quiz_id
        answers == answers_of(df.value)
    IN
    /\ IF no_quiz_loaded(cfg_state)
       THEN /\ quizzes' = quizzes
            /\ Returned("submit_quiz", df.value, "No quiz loaded in this session.", <<>>)
       ELSE IF not_all_attempted(answers)
       THEN /\ quizzes' = quizzes
            /\ Returned("submit_quiz", df.value,
                        "All questions must be attempted before submission", <<>>)
       ELSE \E ok \in BOOLEAN :
            /\ ok => Gradable(quiz_id, answers)
            /\ quizzes' = IF ok THEN MarkCompleted(quiz_id) ELSE quizzes
            /\ Returned("submit_quiz", df.value, IF ok THEN "grading" ELSE "error",
                        <<Call("POST /quizzes/{id}/submit", quiz_id, answers)>>)
    /\ UNCHANGED <<notes, nextNote, nextQuiz, cfg_state, notesTab, conceptsTab,
                   quizzesTab>>

\* rows of question, response, grade, feedback; kept by the question cell.
completed_rows(data) == [i \in 1..Len(data.questions) |-> <<data.questions[i]>>]

\* _load_completed_quiz, run when the selector's value changes.
LoadCompletedQuiz(sel) ==
    /\ IF ~Truthy(sel)
       THEN /\ completed_quiz_df' = <<>>
            /\ Returned("load_completed_quiz", sel, "", <<>>)
       ELSE LET qid == extract_id_from_display(sel)
                get == Call("GET /quizzes/{id}", qid, <<>>)
            IN  \E ok \in BOOLEAN :
                /\ ok => HasQuiz(qid)
                /\ completed_quiz_df' =
                       IF ok THEN completed_rows(QuizOf(qid)) ELSE <<>>
                /\ Returned("load_completed_quiz", sel, "", <<get>>)
    /\ UNCHANGED <<backend, cfg_state, notesTab, conceptsTab, quiz_note_selector,
                   active_quiz_selector, active_quiz_df, completed_quiz_selector>>

\* -------------------------------------------------------------------- spec
\* The answer cells a user can type into a table of n rows.
CellsFor(n) == [1..n -> AnswerCells]

Next ==
    \/ \E name \in Names \cup {<<>>}, content \in {<<>>, <<"c">>} : UploadText(name, content)
    \/ \E fpath \in Names \cup {None} : UploadFile(fpath)
    \/ RefreshNotes
    \/ \E sel \in Options(selected_note) : ShowContent(sel)
    \/ \E sel \in Options(selected_note) : Process(sel)
    \/ \E sel \in Options(selected_note) : DeleteNote(sel)
    \/ RefreshConcept
    \/ \E sel \in Options(concept_note_selector) : LoadConcepts(sel)
    \/ RefreshQuizNotes
    \/ RefreshActiveQuizzes
    \/ RefreshCompletedQuizzes
    \/ \E sels \in SubLists(quiz_note_selector.choices) : CreateQuiz(sels)
    \/ \E sel \in Options(active_quiz_selector) : LoadActiveQuiz(sel)
    \/ \E cells \in CellsFor(Len(active_quiz_df.value)) : SubmitQuiz(cells)
    \/ \E sel \in Options(completed_quiz_selector) : LoadCompletedQuiz(sel)

Spec == Init /\ [][Next]_vars

\* The notes of a backend that already holds two uploaded notes, one of each name.
StoredNotes ==
    <<[id |-> NoteId(1), name |-> <<"a">>, status |-> Uploaded],
      [id |-> NoteId(2), name |-> <<"a", " ", "-">>, status |-> Uploaded]>>

\* A session on a backend that already holds notes, which stays on the Quizzes tab.
QuizInit ==
    /\ notes = StoredNotes
    /\ quizzes = <<>>
    /\ nextNote = Len(StoredNotes) + 1
    /\ nextQuiz = 1
    /\ Widgets
    /\ budget = MaxQuizSteps

QuizNext ==
    \/ RefreshQuizNotes
    \/ RefreshActiveQuizzes
    \/ \E sels \in SubLists(quiz_note_selector.choices) : CreateQuiz(sels)
    \/ \E sel \in Options(active_quiz_selector) : LoadActiveQuiz(sel)
    \/ \E cells \in CellsFor(Len(active_quiz_df.value)) : SubmitQuiz(cells)

QuizSpec == QuizInit /\ [][QuizNext]_vars

\* ------------------------------------------------------------------ claims
ReturnedAfterCall(h) == last'.h = h /\ ~last'.raised /\ last'.calls # <<>>

\* C1: over the handler runs of a session, last_note_id changes only in a
\* process run whose POST succeeded, to the id that was processed; last_quiz_id
\* changes only in a create-quiz run that made a quiz, to that quiz's id, or in
\* a select-active-quiz run that fetched a quiz, to the selected id; those runs
\* do set the field, and every other run leaves both fields as they were.
C1_SessionRecordFrame ==
    [][/\ cfg_state'.last_note_id # cfg_state.last_note_id =>
             /\ ReturnedAfterCall("process")
             /\ last'.out = "Generated concepts."
       /\ ReturnedAfterCall("process") /\ last'.out = "Generated concepts." =>
             /\ cfg_state'.last_note_id = last'.calls[1].id
             /\ \E i \in 1..Len(notes') :
                   notes'[i].id = cfg_state'.last_note_id /\ notes'[i].status = Processed
       /\ ReturnedAfterCall("process") /\ last'.out # "Generated concepts." =>
             cfg_state' = cfg_state
       /\ cfg_state'.last_quiz_id # cfg_state.last_quiz_id =>
             \/ ReturnedAfterCall("create_quiz") /\ Len(quizzes') = Len(quizzes) + 1
             \/ ReturnedAfterCall("load_active_quiz")
       /\ ReturnedAfterCall("create_quiz") /\ Len(quizzes') = Len(quizzes) + 1 =>
             cfg_state'.last_quiz_id = quizzes'[Len(quizzes')].id
       /\ ReturnedAfterCall("load_active_quiz") =>
             /\ cfg_state'.last_quiz_id = last'.calls[1].id
             /\ HasQuiz(cfg_state'.last_quiz_id)
       /\ last'.raised \/ last'.calls = <<>> => cfg_state' = cfg_state
       /\ last'.h \notin {"process", "create_quiz", "load_active_quiz"} =>
             cfg_state' = cfg_state
      ]_vars

\* C1 witness: a session that has recorded a processed note and then a created quiz.
C1_Witness ==
    /\ last.h = "create_quiz"
    /\ last.out = "quiz"
    /\ cfg_state.last_note_id = NoteId(1)
    /\ cfg_state.last_quiz_id = QuizId(1)

\* C2: a submit-quiz run in a session whose last_quiz_id is not set returns the
\* payload "No quiz loaded in this session." and makes no API call.
C2_SubmitWithoutQuiz ==
    last.h = "submit_quiz" /\ cfg_state.last_quiz_id = None =>
        /\ ~last.raised
        /\ last.out = "No quiz loaded in this session."
        /\ last.calls = <<>>

\* C2 witness: submit-quiz has run with no quiz recorded, after a note was processed.
C2_Witness ==
    /\ last.h = "submit_quiz"
    /\ cfg_state.last_quiz_id = None
    /\ cfg_state.last_note_id # None

\* An answer cell that is blank: absent, empty or whitespace only.
Blank(cell) == cell = None \/ Strip(cell) = <<>>

\* C3: a submit-quiz run with last_quiz_id set calls the submit API only when
\* the table has a row and no answer cell is blank (absent, empty or whitespace
\* only); with a blank answer it returns an error payload and makes no call; the
\* responses it sends are the trimmed answers in row order.
C3_SubmitAllAnswered ==
    last.h = "submit_quiz" /\ Truthy(cfg_state.last_quiz_id) =>
        LET rows == last.inp
            blank == \E i \in 1..Len(rows) : Blank(rows[i][2])
        IN  /\ last.calls # <<>> => rows # <<>> /\ ~blank
            /\ blank => /\ last.calls = <<>>
                        /\ last.out = "All questions must be attempted before submission"
            /\ last.calls # <<>> =>
                  last.calls[1].body = [i \in 1..Len(rows) |-> Strip(rows[i][2])]

\* C4: a create-quiz run with an empty note selection returns the error payload,
\* makes no API call and completes, with a value for each of its outputs.
C4_CreateQuizEmptySelection ==
    last.h = "create_quiz" /\ last.inp = <<>> =>
        /\ last.calls = <<>>
        /\ ~last.raised
        /\ last.out = "Select at least one note."

\* C5: no handler run raises, whatever its API calls answer: every run returns a
\* display value for its outputs.
C5_NoHandlerRaises == ~last.raised

\* The label the codec gives a note, spelled out.
NoteLabels == [i \in 1..Len(notes) |-> notes[i].name \o <<" ", "-", " ">> \o notes[i].id]

\* The notes table shows the notes ns, one row each, in order.
TableShows(ns) ==
    /\ Len(notes_df) = Len(ns)
    /\ \A i \in 1..Len(ns) :
          \E j, k \in 1..Len(notes_df[i]) :
              notes_df[i][j] = ns[i].name /\ notes_df[i][k] = ns[i].status

\* C6: after a delete-note run whose DELETE succeeded, the notes table and the
\* selector's options show the backend's notes, the deleted note is not among
\* them and the selector's value is none; after one whose DELETE failed, the
\* table and the options are empty and the value is none.
C6_DeleteNoteRelists ==
    last.h = "delete_note" /\ last.calls # <<>> =>
        IF Len(last.calls) = 2
        THEN /\ TableShows(notes)
             /\ selected_note.choices = NoteLabels
             /\ last.inp \notin Range(selected_note.choices)
             /\ selected_note.value = None
        ELSE /\ notes_df = <<>>
             /\ selected_note.choices = <<>>
             /\ selected_note.value = None

\* C7: decoding the label of any note, and of any quiz with or without a name,
\* gives back its id.
C7_CodecLossless ==
    /\ \A i \in 1..Len(notes) :
          extract_id_from_display(format_note_choice(notes[i])) = notes[i].id
    /\ \A i \in 1..Len(quizzes) :
          extract_id_from_display(format_quiz_choice(quizzes[i])) = quizzes[i].id

\* The labels of the quizzes the backend holds with the given status, in order.
QuizLabels(status) ==
    LET kept == SelectSeq(quizzes, LAMBDA q : q.status = status)
    IN  [i \in 1..Len(kept) |-> format_quiz_choice(kept[i])]

Replaced(dd, labels) ==
    /\ dd.choices = labels
    /\ dd.value = IF labels = <<>> THEN None ELSE labels[1]

C9_SelectActiveQuiz ==
    [][last'.h = "load_active_quiz" =>
         IF ~Truthy(last'.inp)
         THEN /\ ~last'.raised
              /\ last'.calls = <<>>
              /\ active_quiz_df'.value = <<>>
              /\ cfg_state' = cfg_state
         ELSE ~last'.raised =>
              /\ last'.calls =
                    <<Call("GET /quizzes/{id}", extract_id_from_display(last'.inp), <<>>)>>
              /\ cfg_state' = [cfg_state EXCEPT !.last_quiz_id = last'.calls[1].id]
              /\ \E i \in 1..Len(quizzes') :
                    /\ quizzes'[i].id = cfg_state'.last_quiz_id
                    /\ active_quiz_df'.value =
                          [j \in 1..Len(quizzes'[i].questions) |->
                              <<quizzes'[i].questions[j], <<>>>>]
                    /\ active_quiz_df'.interactive <=> quizzes'[i].status = "active"
      ]_vars

\* C9 witness: a quiz that was completed after the selector listed it has been
\* selected: its questions are shown and the table is locked.
C9_Witness ==
    /\ last.h = "load_active_quiz"
    /\ ~last.raised
    /\ active_quiz_df.value # <<>>
    /\ ~active_quiz_df.interactive
    /\ cfg_state.last_quiz_id = QuizId(1)

\* C10: whenever the answer table has rows, last_quiz_id is the id of the quiz
\* whose questions are those rows; and every submit that reaches the API is for
\* the quiz whose questions the table shows.
C10_TableBelongsToLastQuiz ==
    /\ active_quiz_df.value # <<>> =>
          \E i \in 1..Len(quizzes) :
              /\ quizzes[i].id = cfg_state.last_quiz_id
              /\ active_quiz_df.value =
                    [j \in 1..Len(quizzes[i].questions) |-> <<quizzes[i].questions[j], <<>>>>]
    /\ last.h = "submit_quiz" /\ last.calls # <<>> =>
          /\ active_quiz_df.value # <<>>
          /\ \E i \in 1..Len(quizzes) :
              /\ quizzes[i].id = last.calls[1].id
              /\ [j \in 1..Len(last.inp) |-> last.inp[j][1]] = quizzes[i].questions

\* C10 witness: with two quizzes created, the first was selected again and its
\* answers reached the API.
C10_Witness ==
    /\ last.h = "submit_quiz"
    /\ last.calls # <<>>
    /\ last.calls[1].id = QuizId(1)
    /\ Len(quizzes) = 2
    /\ Len(quizzes[2].questions) > 0

\* C11: after every create-quiz run that made a quiz, the answer table is
\* editable, whichever handlers ran before it, a select-active-quiz that
\* locked the table included.
C11_CreateQuizEditable ==
    last.h = "create_quiz" /\ ~last.raised /\ last.out = "quiz" =>
        active_quiz_df.interactive

\* C12: the rows a delete-note run writes to the notes table after its DELETE
\* and its re-list both answered are the rows refresh-notes writes for the
\* same backend list: one [name, status] row per note.
C12_DeleteRowsAsRefresh ==
    last.h = "delete_note" /\ ~last.raised /\ Len(last.calls) = 2 =>
        /\ notes_df = refresh_notes(notes)[1]
        /\ \A i \in 1..Len(notes_df) : Len(notes_df[i]) = 2

=============================================================================
